---- MODULE Spec2Model ----
(***************************************************************************)
(* Model of midealocal/devices/x40/__init__.py: the MideaX40Device adapter *)
(* (attribute store, direction/oscillation codec, inbound message          *)
(* processing, outbound attribute set, customize string).                  *)
(*                                                                         *)
(* Python values are tagged records, so that None, bool, int, float and    *)
(* str stay distinct as they do in the interpreter:                        *)
(*   None             [t |-> "none"]                                       *)
(*   True / False     [t |-> "bool",  b |-> TRUE]                          *)
(*   60               [t |-> "int",   i |-> 60]                            *)
(*   60.5             [t |-> "float", tenths |-> 605]   (fixed point, 0.1) *)
(*   float("nan")     [t |-> "nan"]                                        *)
(*   "90"             [t |-> "str",   s |-> <<"9", "0">>]                  *)
(*   {"k": v}         [t |-> "dict",  d |-> [k |-> v]]                     *)
(*   ["k"]            [t |-> "list",  items |-> <<"k">>]                   *)
(***************************************************************************)
EXTENDS Integers, Sequences, FiniteSets, TLC

\* ---------------------------------------------------------------- constants

DIRECTION_MIN_VALUE == 60
DIRECTION_MAX_VALUE == 120
VENTILATION_FAN_SPEED == 2
DIRECTION_OSCILLATE == 253
DIRECTION_STOP == 254
DIRECTION_00 == 0
DIRECTION_FF == 255

\* How far around DIRECTION_MIN_VALUE and DIRECTION_MAX_VALUE the inbound
\* direction bytes and the user's integers are enumerated.
Margin == 1

\* ------------------------------------------------------------ python values

None == [t |-> "none"]
PyBool(b) == [t |-> "bool", b |-> b]
PyInt(i) == [t |-> "int", i |-> i]
PyFloat(tenths) == [t |-> "float", tenths |-> tenths]
PyNaN == [t |-> "nan"]
PyStr(s) == [t |-> "str", s |-> s]

\* bool(v)
Truthy(v) ==
    CASE v.t = "none" -> FALSE
      [] v.t = "bool" -> v.b
      [] v.t = "int" -> v.i # 0
      [] v.t = "float" -> v.tenths # 0
      [] v.t = "nan" -> TRUE
      [] v.t = "str" -> Len(v.s) > 0
      [] v.t = "dict" -> DOMAIN v.d # {}
      [] v.t = "list" -> Len(v.items) > 0

\* v == n for an int literal n (True == 1, 2.0 == 2, "2" != 2, None != 2)
PyEqInt(v, n) ==
    CASE v.t = "int" -> v.i = n
      [] v.t = "bool" -> (IF v.b THEN 1 ELSE 0) = n
      [] v.t = "float" -> v.tenths = 10 * n
      [] OTHER -> FALSE

DigitChars == {"0", "1", "2", "3", "4", "5", "6", "7", "8", "9"}

DigitVal(c) ==
    CASE c = "0" -> 0 [] c = "1" -> 1 [] c = "2" -> 2 [] c = "3" -> 3
      [] c = "4" -> 4 [] c = "5" -> 5 [] c = "6" -> 6 [] c = "7" -> 7
      [] c = "8" -> 8 [] c = "9" -> 9

RECURSIVE DigitsValue(_, _)
DigitsValue(s, acc) ==
    IF s = <<>> THEN acc ELSE DigitsValue(Tail(s), 10 * acc + DigitVal(Head(s)))

RECURSIVE Strip(_)
Strip(s) ==
    IF s = <<>> THEN s
    ELSE IF Head(s) = " " THEN Strip(Tail(s))
    ELSE IF s[Len(s)] = " " THEN Strip(SubSeq(s, 1, Len(s) - 1))
    ELSE s

\* int(s) for a str: surrounding blanks, one optional sign, decimal digits;
\* anything else is a ValueError.
ParseInt(s) ==
    LET u == Strip(s)
        signed == u # <<>> /\ Head(u) \in {"+", "-"}
        d == IF signed THEN Tail(u) ELSE u
    IN  IF d # <<>> /\ \A k \in 1..Len(d) : d[k] \in DigitChars
        THEN [ok |-> TRUE,
              i |-> IF signed /\ Head(u) = "-" THEN 0 - DigitsValue(d, 0)
                    ELSE DigitsValue(d, 0)]
        ELSE [ok |-> FALSE]

\* int(v): [ok |-> TRUE, i |-> n], or [ok |-> FALSE] where Python raises.
py_int(v) ==
    CASE v.t = "int" -> [ok |-> TRUE, i |-> v.i]
      [] v.t = "bool" -> [ok |-> TRUE, i |-> IF v.b THEN 1 ELSE 0]
      [] v.t = "float" ->
            [ok |-> TRUE,
             i |-> IF v.tenths >= 0 THEN v.tenths \div 10
                   ELSE 0 - ((0 - v.tenths) \div 10)]
      [] v.t = "nan" -> [ok |-> FALSE]
      [] v.t = "str" -> ParseInt(v.s)
      [] v.t = "none" -> [ok |-> FALSE]

\* --------------------------------------------------------------- attributes

\* DeviceAttributes, in the order the attributes dict is built and iterated.
DeviceAttributes ==
    <<"light", "fan_speed", "direction", "oscillation", "ventilation",
      "smelly_sensor", "current_temperature">>

AttributeNames == {DeviceAttributes[k] : k \in 1..Len(DeviceAttributes)}

SettableAttributes ==
    {"light", "fan_speed", "direction", "ventilation", "smelly_sensor"}

\* Mutant of InitialAttributes: oscillation starts as False instead of None.
MutInitialAttributes_OscillationFalse ==
    [light |-> PyBool(FALSE),
     fan_speed |-> PyInt(0),
     direction |-> None,
     oscillation |-> PyBool(FALSE),
     ventilation |-> PyBool(FALSE),
     smelly_sensor |-> PyBool(FALSE),
     current_temperature |-> None]

InitialAttributes ==
    [light |-> PyBool(FALSE),
     fan_speed |-> PyInt(0),
     direction |-> None,
     oscillation |-> None,
     ventilation |-> PyBool(FALSE),
     smelly_sensor |-> PyBool(FALSE),
     current_temperature |-> None]

_default_precision_halves == PyBool(FALSE)

\* ------------------------------------------------------- direction encoding

\* int(direction) raises for some inputs: the result is [ok |-> FALSE] then.
_convert_to_midea_direction(direction) ==
    LET n == py_int(direction)
    IN  IF ~n.ok THEN [ok |-> FALSE]
        ELSE IF n.i \in {DIRECTION_OSCILLATE, DIRECTION_STOP}
                \/ (DIRECTION_MIN_VALUE <= n.i /\ n.i <= DIRECTION_MAX_VALUE)
        THEN [ok |-> TRUE, i |-> n.i]
        ELSE [ok |-> TRUE, i |-> DIRECTION_FF]

\* Mutant of _get_midea_direction: `if not oscillation` for `is False`, so an
\* unset oscillation is encoded as if it were False.
Mut_get_midea_direction_NotOscillation(attrs) ==
    LET oscillation == attrs.oscillation
    IN  IF oscillation = PyBool(TRUE) THEN PyInt(DIRECTION_OSCILLATE)
        ELSE IF attrs.direction = None THEN PyInt(DIRECTION_STOP)
        ELSE attrs.direction

_get_midea_direction(attrs) ==
    LET oscillation == attrs.oscillation
    IN  IF oscillation = PyBool(TRUE) THEN PyInt(DIRECTION_OSCILLATE)
        ELSE IF oscillation = PyBool(FALSE)
        THEN IF attrs.direction = None THEN PyInt(DIRECTION_STOP)
             ELSE attrs.direction
        ELSE PyInt(DIRECTION_FF)

\* ---------------------------------------------------------- process_message

\* The decoded MessageX40Response: the attributes it exposes (attrs, a
\* function from a subset of the attribute names) and its raw field mapping.
hasattr(message, status) == status \in DOMAIN message.attrs

\* value /= 2 (true division: the result is a float)
Halve(value) ==
    CASE value.t = "int" -> PyFloat(5 * value.i)
      [] value.t = "bool" -> PyFloat(IF value.b THEN 5 ELSE 0)
      [] value.t = "float" -> PyFloat(value.tenths \div 2)

\* self._attributes[status] = value; new_status[str(status)] = self._attributes[status]
Store(status, value, st) ==
    LET stored == [st.attributes EXCEPT ![status] = value]
    IN  [attributes |-> stored,
         new_status |-> (status :> stored[status]) @@ st.new_status,
         written |-> st.written \cup {status}]

\* Mutant of DecodeDirection: DIRECTION_STOP is not among the discarded bytes.
MutDecodeDirection_StopStored(value, st) ==
    IF PyEqInt(value, DIRECTION_00) \/ PyEqInt(value, DIRECTION_FF)
    THEN st
    ELSE IF PyEqInt(value, DIRECTION_OSCILLATE)
    THEN Store("direction", None,
               [st EXCEPT !.attributes.oscillation = PyBool(TRUE),
                          !.written = @ \cup {"oscillation"}])
    ELSE Store("direction", value,
               [st EXCEPT !.attributes.oscillation = PyBool(FALSE),
                          !.written = @ \cup {"oscillation"}])

\* The direction branch of the loop body.
DecodeDirection(value, st) ==
    IF PyEqInt(value, DIRECTION_STOP) \/ PyEqInt(value, DIRECTION_00)
       \/ PyEqInt(value, DIRECTION_FF)
    THEN st
    ELSE IF PyEqInt(value, DIRECTION_OSCILLATE)
    THEN Store("direction", None,
               [st EXCEPT !.attributes.oscillation = PyBool(TRUE),
                          !.written = @ \cup {"oscillation"}])
    ELSE Store("direction", value,
               [st EXCEPT !.attributes.oscillation = PyBool(FALSE),
                          !.written = @ \cup {"oscillation"}])

\* One iteration of `for status in self._attributes`.
ProcessStatus(status, message, precision, st) ==
    IF ~hasattr(message, status) THEN st
    ELSE LET raw == message.attrs[status]
             value == IF Truthy(precision) /\ status = "current_temperature"
                      THEN Halve(raw) ELSE raw
         IN  IF status = "direction" THEN DecodeDirection(value, st)
             ELSE Store(status, value, st)

RECURSIVE ProcessLoop(_, _, _, _)
ProcessLoop(k, message, precision, st) ==
    IF k > Len(DeviceAttributes) THEN st
    ELSE ProcessLoop(k + 1, message, precision,
                     ProcessStatus(DeviceAttributes[k], message, precision, st))

\* ------------------------------------------------------------ set_attribute

\* Mutant of ApplyChange: the ventilation branch is missing, so ventilation
\* is set like any other attribute.
MutApplyChange_NoVentilationBranch(message, attr, value) ==
    IF attr = "direction"
    THEN LET c == _convert_to_midea_direction(value)
         IN  IF c.ok THEN [ok |-> TRUE, m |-> [message EXCEPT !.direction = PyInt(c.i)]]
             ELSE [ok |-> FALSE]
    ELSE [ok |-> TRUE, m |-> [message EXCEPT ![attr] = value]]

\* The branch that applies the requested change to the prepared message.
\* [ok |-> FALSE] when _convert_to_midea_direction raised.
ApplyChange(message, attr, value) ==
    IF attr = "direction"
    THEN LET c == _convert_to_midea_direction(value)
         IN  IF c.ok THEN [ok |-> TRUE, m |-> [message EXCEPT !.direction = PyInt(c.i)]]
             ELSE [ok |-> FALSE]
    ELSE IF attr = "ventilation" /\ PyEqInt(message.fan_speed, VENTILATION_FAN_SPEED)
    THEN [ok |-> TRUE,
          m |-> [message EXCEPT !.fan_speed = PyInt(1),
                                !.ventilation = PyBool(Truthy(value))]]
    ELSE [ok |-> TRUE, m |-> [message EXCEPT ![attr] = value]]

\* The MessageSet prepared from the stored state.
PrepareMessage(attrs, cache) ==
    [fields |-> cache,
     light |-> attrs.light,
     ventilation |-> attrs.ventilation,
     smelly_sensor |-> attrs.smelly_sensor,
     fan_speed |-> attrs.fan_speed,
     direction |-> _get_midea_direction(attrs)]

\* The messages handed to build_send, and whether the call raised.
SetAttributeResult(attrs, cache, attr, value) ==
    IF attr \notin SettableAttributes THEN [sent |-> <<>>, raised |-> FALSE]
    ELSE LET r == ApplyChange(PrepareMessage(attrs, cache), attr, value)
         IN  IF r.ok THEN [sent |-> <<r.m>>, raised |-> FALSE]
             ELSE [sent |-> <<>>, raised |-> TRUE]

\* ------------------------------------------------------------ set_customize

CustomizeStrings ==
    {"", "{bad json", "{}", "5", "[\"precision_halves\"]",
     "{\"other\": true}",
     "{\"precision_halves\": true}", "{\"precision_halves\": false}",
     "{\"precision_halves\": null}"}

\* json.loads on the customize strings above: [ok |-> FALSE] for a
\* JSONDecodeError, else the decoded value.
json_loads(customize) ==
    CASE customize = "{}" -> [ok |-> TRUE, v |-> [t |-> "dict", d |-> <<>>]]
      [] customize = "5" -> [ok |-> TRUE, v |-> PyInt(5)]
      [] customize = "[\"precision_halves\"]" ->
            [ok |-> TRUE, v |-> [t |-> "list", items |-> <<"precision_halves">>]]
      [] customize = "{\"other\": true}" ->
            [ok |-> TRUE, v |-> [t |-> "dict", d |-> [other |-> PyBool(TRUE)]]]
      [] customize = "{\"precision_halves\": true}" ->
            [ok |-> TRUE,
             v |-> [t |-> "dict", d |-> [precision_halves |-> PyBool(TRUE)]]]
      [] customize = "{\"precision_halves\": false}" ->
            [ok |-> TRUE,
             v |-> [t |-> "dict", d |-> [precision_halves |-> PyBool(FALSE)]]]
      [] customize = "{\"precision_halves\": null}" ->
            [ok |-> TRUE, v |-> [t |-> "dict", d |-> [precision_halves |-> None]]]
      [] OTHER -> [ok |-> FALSE]

\* The try block: the value _precision_halves holds after it, starting from
\* `current`. Every exception (JSONDecodeError, the TypeError of `in` on a
\* number, the AttributeError of .get on a list) is caught and leaves it.
TryParams(current, customize) ==
    LET r == json_loads(customize)
    IN  IF ~r.ok THEN current
        ELSE IF ~Truthy(r.v) THEN current
        ELSE IF r.v.t = "dict"
        THEN IF "precision_halves" \in DOMAIN r.v.d THEN r.v.d.precision_halves
             ELSE current
        ELSE current

\* Mutant of SetCustomizeResult: _precision_halves is not reset to the
\* default first.
MutSetCustomizeResult_NoReset(previous, customize) ==
    IF customize # ""
    THEN LET p == TryParams(previous, customize)
         IN  [precision |-> p, updates |-> <<[precision_halves |-> p]>>]
    ELSE [precision |-> previous, updates |-> <<>>]

\* set_customize: the new _precision_halves and the update_all calls made.
SetCustomizeResult(previous, customize) ==
    LET reset == _default_precision_halves
    IN  IF customize # ""
        THEN LET p == TryParams(reset, customize)
             IN  [precision |-> p, updates |-> <<[precision_halves |-> p]>>]
        ELSE [precision |-> reset, updates |-> <<>>]

\* ------------------------------------------------------------------- inputs

DirectionBytes ==
    {DIRECTION_00, DIRECTION_OSCILLATE, DIRECTION_STOP, DIRECTION_FF}
    \cup ((DIRECTION_MIN_VALUE - Margin)..(DIRECTION_MIN_VALUE + Margin))
    \cup ((DIRECTION_MAX_VALUE - Margin)..(DIRECTION_MAX_VALUE + Margin))

\* The status reports the model's device sends: what the reported
\* attributes other than direction hold, and the raw field mapping.
StatusReports ==
    {[fields |-> [raw |-> 1], light |-> TRUE, fan_speed |-> VENTILATION_FAN_SPEED,
      ventilation |-> FALSE, smelly_sensor |-> FALSE, current_temperature |-> 50],
     [fields |-> [raw |-> 2], light |-> FALSE, fan_speed |-> 1,
      ventilation |-> TRUE, smelly_sensor |-> TRUE, current_temperature |-> 51],
     [fields |-> [raw |-> 3], light |-> TRUE, fan_speed |-> 3,
      ventilation |-> FALSE, smelly_sensor |-> TRUE, current_temperature |-> 51]}

\* A response either carries the body with all six reported attributes or
\* (another message type) exposes none of them.
Messages ==
    {[fields |-> r.fields,
      attrs |-> [light |-> PyBool(r.light), fan_speed |-> PyInt(r.fan_speed),
                 direction |-> PyInt(b), ventilation |-> PyBool(r.ventilation),
                 smelly_sensor |-> PyBool(r.smelly_sensor),
                 current_temperature |-> PyInt(r.current_temperature)]] :
        r \in StatusReports, b \in DirectionBytes}
    \cup {[fields |-> [raw |-> 0], attrs |-> <<>>]}

BasicValues == {PyBool(TRUE), PyBool(FALSE), PyInt(1), PyInt(VENTILATION_FAN_SPEED)}

DirectionValues ==
    BasicValues
    \cup {PyInt(b) : b \in DirectionBytes}
    \cup {PyFloat(605), PyFloat(1209), PyFloat(900), PyNaN}
    \cup {PyStr(<<"a", "b", "c">>), PyStr(<<"9", "0">>), PyStr(<<" ", "6", "1">>),
          PyStr(<<"9", "0", ".", "5">>), PyStr(<<>>)}

UserValues(attr) == IF attr = "direction" THEN DirectionValues ELSE BasicValues

UserAttrs == AttributeNames \cup {"power"}

\* -------------------------------------------------------------------- state

VARIABLES
    attributes,         \* self._attributes
    fields,             \* self._fields
    precision_halves,   \* self._precision_halves
    op,                 \* the last call: "__init__", "process_message", ...
    arg,                \* its argument
    new_status,         \* what process_message returned
    written,            \* the attributes process_message assigned
    sent,               \* the messages the call handed to build_send
    updates,            \* the statuses the call handed to update_all
    raised              \* whether the call raised to its caller

vars ==
    <<attributes, fields, precision_halves, op, arg, new_status, written, sent,
      updates, raised>>

\* __init__(..., customize): the attribute defaults, then set_customize.
Init ==
    \E customize \in CustomizeStrings :
        LET r == SetCustomizeResult(None, customize)
        IN  /\ attributes = InitialAttributes
            /\ fields = <<>>
            /\ precision_halves = r.precision
            /\ op = "__init__"
            /\ arg = customize
            /\ new_status = <<>>
            /\ written = {}
            /\ sent = <<>>
            /\ updates = r.updates
            /\ raised = FALSE

process_message(message) ==
    LET st == ProcessLoop(1, message, precision_halves,
                          [attributes |-> attributes, new_status |-> <<>>,
                           written |-> {}])
    IN  /\ fields' = message.fields
        /\ attributes' = st.attributes
        /\ new_status' = st.new_status
        /\ written' = st.written
        /\ op' = "process_message"
        /\ arg' = message
        /\ sent' = <<>>
        /\ updates' = <<>>
        /\ raised' = FALSE
        /\ UNCHANGED precision_halves

set_attribute(attr, value) ==
    LET r == SetAttributeResult(attributes, fields, attr, value)
    IN  /\ sent' = r.sent
        /\ raised' = r.raised
        /\ op' = "set_attribute"
        /\ arg' = [attr |-> attr, value |-> value]
        /\ new_status' = <<>>
        /\ written' = {}
        /\ updates' = <<>>
        /\ UNCHANGED <<attributes, fields, precision_halves>>

set_customize(customize) ==
    LET r == SetCustomizeResult(precision_halves, customize)
    IN  /\ precision_halves' = r.precision
        /\ updates' = r.updates
        /\ op' = "set_customize"
        /\ arg' = customize
        /\ new_status' = <<>>
        /\ written' = {}
        /\ sent' = <<>>
        /\ raised' = FALSE
        /\ UNCHANGED <<attributes, fields>>

Next ==
    \/ \E message \in Messages : process_message(message)
    \/ \E attr \in UserAttrs : \E value \in UserValues(attr) : set_attribute(attr, value)
    \/ \E customize \in CustomizeStrings : set_customize(customize)

Spec == Init /\ [][Next]_vars

\* ------------------------------------------------------------------- claims

ValidDirections ==
    {DIRECTION_OSCILLATE, DIRECTION_STOP} \cup (DIRECTION_MIN_VALUE..DIRECTION_MAX_VALUE)

IsProcessMessage == op = "process_message"
IsSetAttribute == op = "set_attribute"
IsSetCustomize == op = "set_customize"

\* The direction byte of the last inbound message, -1 when it carried none.
InboundDirection ==
    IF IsProcessMessage /\ hasattr(arg, "direction") THEN arg.attrs.direction.i ELSE -1

\* C1: process_message with direction byte b: for b in [60,120] the stored
\* direction is b and oscillation is False afterwards; for b = 0xFD oscillation
\* is True and direction is None; for b in {0x00, 0xFE, 0xFF} direction and
\* oscillation are what they were before the call.
C1_DirectionDecode ==
    [][(op' = "process_message" /\ hasattr(arg', "direction")) =>
        LET b == arg'.attrs.direction.i
        IN  /\ (DIRECTION_MIN_VALUE <= b /\ b <= DIRECTION_MAX_VALUE) =>
                    /\ attributes'.direction = PyInt(b)
                    /\ attributes'.oscillation = PyBool(FALSE)
            /\ (b = DIRECTION_OSCILLATE) =>
                    /\ attributes'.oscillation = PyBool(TRUE)
                    /\ attributes'.direction = None
            /\ (b \in {DIRECTION_00, DIRECTION_STOP, DIRECTION_FF}) =>
                    /\ attributes'.direction = attributes.direction
                    /\ attributes'.oscillation = attributes.oscillation]_vars

\* A discarded byte (stop) arrived while an angle was stored, and the angle
\* and oscillation = False are still stored.
C1_Witness ==
    /\ InboundDirection = DIRECTION_STOP
    /\ attributes.direction = PyInt(DIRECTION_MIN_VALUE)
    /\ attributes.oscillation = PyBool(FALSE)

\* What C2 says _convert_to_midea_direction returns: the input's integer when
\* it is a valid direction, 0xFF for every other input.
ClaimedDirection(v) ==
    LET n == CASE v.t = "int" -> v.i
               [] v.t = "bool" -> IF v.b THEN 1 ELSE 0
               [] v.t = "float" -> IF v.tenths % 10 = 0 THEN v.tenths \div 10 ELSE -1
               [] v.t = "str" -> IF ParseInt(v.s).ok THEN ParseInt(v.s).i ELSE -1
               [] OTHER -> -1
    IN  IF n \in ValidDirections THEN n ELSE DIRECTION_FF

\* C2: set_attribute('direction', v) never raises and always sends one message,
\* whose direction byte is v's integer when that is 0xFD, 0xFE or in [60,120]
\* and 0xFF for every other v (a float with a fraction is only required not
\* to raise).
C2_ConvertTotal ==
    (IsSetAttribute /\ arg.attr = "direction") =>
        /\ ~raised
        /\ Len(sent) = 1
        /\ (arg.value.t = "float" /\ arg.value.tenths % 10 # 0)
              \/ sent[1].direction = PyInt(ClaimedDirection(arg.value))

\* C3: the mapping process_message returns holds exactly the attributes the
\* call wrote, each with its new stored value.
C3_NewStatusIsWritten ==
    IsProcessMessage =>
        /\ DOMAIN new_status = written
        /\ \A a \in written : new_status[a] = attributes[a]

\* C4: every set_customize call hands the resolved precision flag to update_all
\* exactly once.
C4_AlwaysPropagates ==
    IsSetCustomize => updates = <<[precision_halves |-> precision_halves]>>

\* What C5 says the precision mode is after set_customize(customize).
ClaimedPrecision(customize) ==
    LET r == json_loads(customize)
    IN  IF customize = "" THEN PyBool(FALSE)
        ELSE IF ~r.ok THEN PyBool(FALSE)
        ELSE IF r.v.t = "dict" /\ "precision_halves" \in DOMAIN r.v.d
        THEN r.v.d["precision_halves"]
        ELSE PyBool(FALSE)

\* C5: after set_customize the precision mode is a function of that call's
\* string alone (False for an empty string, a string that fails to parse or
\* one without the key, else the key's value), whatever it was before; the
\* call does not raise; no other call changes the precision mode.
C5_PrecisionFromLastCustomize ==
    [][/\ (op' = "set_customize") =>
            (precision_halves' = ClaimedPrecision(arg') /\ ~raised')
       /\ (op' # "set_customize") => (precision_halves' = precision_halves)]_vars

\* A malformed string reset the precision mode: a halved temperature is still
\* stored from the time the mode was on.
C5_Witness ==
    /\ IsSetCustomize
    /\ arg = "{bad json"
    /\ precision_halves = PyBool(FALSE)
    /\ attributes.current_temperature = PyFloat(250)

\* C6: set_attribute('ventilation', v) sends fan_speed = 1 and ventilation =
\* bool(v) when the stored fan_speed is 2, and the stored fan_speed and
\* ventilation = v otherwise; the message never carries fan_speed = 2.
C6_VentilationRule ==
    [][(op' = "set_attribute" /\ arg'.attr = "ventilation") =>
        /\ Len(sent') = 1
        /\ IF attributes.fan_speed = PyInt(VENTILATION_FAN_SPEED)
           THEN /\ sent'[1].fan_speed = PyInt(1)
                /\ sent'[1].ventilation = PyBool(Truthy(arg'.value))
           ELSE /\ sent'[1].fan_speed = attributes.fan_speed
                /\ sent'[1].ventilation = arg'.value
        /\ sent'[1].fan_speed # PyInt(VENTILATION_FAN_SPEED)]_vars

\* ventilation was set to the integer 1 while fan_speed 2 was stored: the
\* message carries fan_speed 1 and ventilation True.
C6_Witness ==
    /\ IsSetAttribute
    /\ arg = [attr |-> "ventilation", value |-> PyInt(1)]
    /\ attributes.fan_speed = PyInt(VENTILATION_FAN_SPEED)
    /\ Len(sent) = 1
    /\ sent[1].fan_speed = PyInt(1)
    /\ sent[1].ventilation = PyBool(TRUE)

\* C7: set_attribute leaves the stored attributes and the precision mode as
\* they were, sends exactly one message for a settable name and none for any
\* other name.
C7_SetAttributeFrame ==
    [][(op' = "set_attribute") =>
        /\ attributes' = attributes
        /\ precision_halves' = precision_halves
        /\ Len(sent') = IF arg'.attr \in SettableAttributes THEN 1 ELSE 0]_vars

\* The encode-from-state rule as C8 states it.
ClaimedEncode(attrs) ==
    CASE attrs.oscillation = PyBool(TRUE) -> PyInt(DIRECTION_OSCILLATE)
      [] attrs.oscillation = PyBool(FALSE) /\ attrs.direction # None -> attrs.direction
      [] attrs.oscillation = PyBool(FALSE) /\ attrs.direction = None -> PyInt(DIRECTION_STOP)
      [] attrs.oscillation = None -> PyInt(DIRECTION_FF)

CarriedAttributes == {"light", "ventilation", "smelly_sensor", "fan_speed"}

\* C8 as stated: setting a settable attribute other than direction sends the
\* direction byte encoded from the stored state, and every one of light,
\* ventilation, smelly_sensor, fan_speed other than the one being set carries
\* its stored value.
C8_Original ==
    [][(op' = "set_attribute" /\ arg'.attr \in SettableAttributes \ {"direction"}) =>
        /\ Len(sent') = 1
        /\ sent'[1].direction = ClaimedEncode(attributes)
        /\ \A a \in CarriedAttributes \ {arg'.attr} :
              sent'[1][a] = attributes[a]]_vars

\* C8 amended: as C8, except that setting ventilation while the stored
\* fan_speed is 2 sends fan_speed = 1 instead of the stored fan_speed.
C8_EncodeFromState ==
    [][(op' = "set_attribute" /\ arg'.attr \in SettableAttributes \ {"direction"}) =>
        /\ Len(sent') = 1
        /\ sent'[1].direction = ClaimedEncode(attributes)
        /\ \A a \in CarriedAttributes \ {arg'.attr} :
              IF /\ a = "fan_speed"
                 /\ arg'.attr = "ventilation"
                 /\ attributes.fan_speed = PyInt(VENTILATION_FAN_SPEED)
              THEN sent'[1][a] = PyInt(1)
              ELSE sent'[1][a] = attributes[a]]_vars

\* light was set while nothing had been decoded yet (oscillation unset): the
\* message carries direction 0xFF and the stored fan_speed.
C8_Witness ==
    /\ IsSetAttribute
    /\ arg.attr = "light"
    /\ attributes.oscillation = None
    /\ attributes.fan_speed = PyInt(VENTILATION_FAN_SPEED)
    /\ Len(sent) = 1
    /\ sent[1].direction = PyInt(DIRECTION_FF)
    /\ sent[1].fan_speed = PyInt(VENTILATION_FAN_SPEED)

\* C9: the stored direction is None or an integer in [60,120].
C9_DirectionInRange ==
    \/ attributes.direction = None
    \/ /\ attributes.direction.t = "int"
       /\ DIRECTION_MIN_VALUE <= attributes.direction.i
       /\ attributes.direction.i <= DIRECTION_MAX_VALUE

\* oscillation True or unset only with direction unset, False only with
\* direction set.
Consistent ==
    /\ attributes.oscillation = PyBool(TRUE) => attributes.direction = None
    /\ attributes.oscillation = PyBool(FALSE) => attributes.direction # None
    /\ attributes.oscillation = None => attributes.direction = None

\* C10: direction and oscillation stay consistent in every reachable state, the
\* encode-from-state rule never yields 0xFE, and the set_attribute of another
\* attribute that follows an inbound direction byte b in {0xFD} or [60,120]
\* sends direction byte b.
C10_DirectionOscillationConsistent ==
    /\ [](Consistent /\ _get_midea_direction(attributes) # PyInt(DIRECTION_STOP))
    /\ [][(/\ InboundDirection \in ValidDirections \ {DIRECTION_STOP}
           /\ op' = "set_attribute"
           /\ arg'.attr \in SettableAttributes \ {"direction"}) =>
            (Len(sent') = 1 /\ sent'[1].direction = PyInt(InboundDirection))]_vars

\* fan_speed was set right after an inbound oscillate byte: the message
\* carries 0xFD.
C10_Witness ==
    /\ IsSetAttribute
    /\ arg.attr = "fan_speed"
    /\ attributes.oscillation = PyBool(TRUE)
    /\ attributes.direction = None
    /\ Len(sent) = 1
    /\ sent[1].direction = PyInt(DIRECTION_OSCILLATE)

====
